---- MODULE Spec2Model ----
(***************************************************************************)
(* Model of testrabbit.py: a straight-line script that opens a TCP socket  *)
(* to an AMQP 0-9-1 broker, writes the protocol header and four method     *)
(* frames, and calls recv(4096) once after each write.  The broker and the *)
(* transport are the environment.  Bytes are integers 0..255, byte strings *)
(* are sequences of them, text strings are sequences of code points.       *)
(***************************************************************************)
EXTENDS Integers, Sequences, FiniteSets, TLC

\* ------------------------------------------------------------------ bounds
\* Longest USER / PASS / VHOST / QUEUE text, in code points.
MaxStrLen == 1
\* How many times the transport may split what the broker wrote.
MaxSplits == 1
\* Longest payload handed to the frame codec in CodecSpec.
MaxPayload == 2

\* Length of the first segment when the transport splits what the broker wrote.
SplitAt == 3

\* Size argument of every s.recv call.
RecvSize == 4096
\* Last byte of every frame.
FrameEnd == 206

\* --------------------------------------------------------- byte utilities
Byte == 0..255

Take(s, n) == SubSeq(s, 1, IF n < Len(s) THEN n ELSE Len(s))

Drop(s, n) == SubSeq(s, n + 1, Len(s))

\* Code points the configured strings are built from: 'u' (117), 'p' (112),
\* and e-acute (233), whose UTF-8 form is two bytes.

RECURSIVE SeqsUpTo(_, _)
SeqsUpTo(S, n) ==
    IF n = 0 THEN {<<>>}
    ELSE LET shorter == SeqsUpTo(S, n - 1)
         IN  shorter \cup {Append(s, x) : s \in {t \in shorter : Len(t) = n - 1}, x \in S}

\* The user names and passwords tried.
Users == SeqsUpTo({117, 233}, MaxStrLen)
Passwords == SeqsUpTo({112, 233}, MaxStrLen)

\* The virtual hosts and queue names tried: "/" and "q", and one name
\* each with a two-byte character.
Vhosts == {<<47>>, <<233>>}
Queues == {<<113>>, <<113, 233>>}

\* str.encode(): UTF-8, for code points below U+0800.
EncodeChar(c) ==
    IF c < 128 THEN <<c>> ELSE <<192 + (c \div 64), 128 + (c % 64)>>

RECURSIVE encode(_)
encode(str) ==
    IF str = <<>> THEN <<>> ELSE EncodeChar(Head(str)) \o encode(Tail(str))

\* struct.pack('!B', n), ('!H', n), ('!I', n): big-endian, fixed width.
\* struct.error is raised for a value out of range; CanPack* is that test.
CanPackB(n) == n \in 0..255
CanPackH(n) == n \in 0..65535
CanPackI(n) == n >= 0 /\ n \div 65536 <= 65535

PackB(n) == <<n>>

PackH(n) == <<n \div 256, n % 256>>

PackI(n) == <<n \div 16777216, (n \div 65536) % 256, (n \div 256) % 256, n % 256>>

\* bytes.join: sep.join(parts).
RECURSIVE join(_, _)
join(sep, parts) ==
    IF parts = <<>> THEN <<>>
    ELSE IF Len(parts) = 1 THEN parts[1]
    ELSE parts[1] \o sep \o join(sep, Tail(parts))

\* ------------------------------------------------------------ the client
\* send_frame with the length field counting the frame-end octet too.
send_frame_length_with_end(frame_type, channel, payload) ==
    PackB(frame_type) \o PackH(channel) \o PackI(Len(payload) + 1) \o payload \o <<FrameEnd>>

\* send_frame packing with '<BHI': the channel in little-endian order.
send_frame_little_endian(frame_type, channel, payload) ==
    PackB(frame_type) \o <<channel % 256, channel \div 256>> \o PackI(Len(payload))
        \o payload \o <<FrameEnd>>

\* send_frame's argument of sock.sendall.
send_frame(frame_type, channel, payload) ==
    PackB(frame_type) \o PackH(channel) \o PackI(Len(payload)) \o payload \o <<FrameEnd>>

ProtocolHeader == <<65, 77, 81, 80, 0, 0, 9, 1>>

\* resp without the authorization identity: two fields, one separator.
SaslResponse_without_authzid(USER, PASS) ==
    join(<<0>>, <<encode(USER), encode(PASS)>>)

\* Step 3: resp, the SASL PLAIN response.
SaslResponse(USER, PASS) ==
    LET authzid == encode(USER)
        authcid == encode(USER)
        passwd  == encode(PASS)
    IN  join(<<0>>, <<authzid, authcid, passwd>>)

\* Step 3: method = connection.start-ok.
StartOkMethod(USER, PASS) ==
    LET resp == SaslResponse(USER, PASS)
        args == <<0, 12, 80, 76, 65, 73, 78>> \o PackI(Len(resp)) \o resp \o <<0>>
    IN  PackH(10) \o PackH(11) \o args

\* Step 5: method = connection.open.
OpenMethod(VHOST) ==
    LET args == encode(VHOST)
    IN  PackH(10) \o PackH(40) \o PackB(Len(args)) \o args \o <<0, 0>>

\* Step 6: channel.open.
ChannelOpenMethod == PackH(20) \o PackH(10)

\* Step 7: payload = queue.declare.
QueueDeclareMethod(QUEUE) ==
    LET qname == encode(QUEUE)
    IN  PackH(50) \o PackH(10) \o PackH(1) \o <<0>> \o PackB(Len(qname)) \o qname \o PackB(8)

\* ------------------------------------------------------------ the broker
\* A method frame as the broker writes it.
ServerFrame(channel, class_id, method_id, args) ==
    <<1>> \o PackH(channel) \o PackI(4 + Len(args)) \o PackH(class_id) \o PackH(method_id)
          \o args \o <<FrameEnd>>

\* connection.start: version 0-9, empty server-properties, mechanisms
\* "PLAIN", locales "en_US".
ConnectionStart ==
    ServerFrame(0, 10, 10, <<0, 9>> \o PackI(0) \o PackI(5) \o <<80, 76, 65, 73, 78>>
                                   \o PackI(5) \o <<101, 110, 95, 85, 83>>)

\* connection.tune: channel-max 0, frame-max 131072, heartbeat 60.
ConnectionTune == ServerFrame(0, 10, 30, PackH(0) \o PackI(131072) \o PackH(60))

\* connection.open-ok: one reserved short string.
ConnectionOpenOk == ServerFrame(0, 10, 41, <<0>>)

\* connection.close with a reply code, empty reply text, and the class and
\* method that caused it.
ConnectionClose(code, class_id, method_id) ==
    ServerFrame(0, 10, 50, PackH(code) \o <<0>> \o PackH(class_id) \o PackH(method_id))

\* channel.open-ok: one reserved long string.
ChannelOpenOk == ServerFrame(1, 20, 11, PackI(0))

\* channel.close, as for a passive declare of an absent queue.
ChannelClose(code, class_id, method_id) ==
    ServerFrame(1, 20, 40, PackH(code) \o <<0>> \o PackH(class_id) \o PackH(method_id))

\* queue.declare-ok: queue name, message count, consumer count.
QueueDeclareOk(name, message_count, consumer_count) ==
    ServerFrame(1, 50, 11, PackB(Len(name)) \o name \o PackI(message_count)
                              \o PackI(consumer_count))

\* The same bytes with the frame-end octet overwritten.
Corrupt(frame) == [frame EXCEPT ![Len(frame)] = 0]

\* ------------------------------------------------------- decoding frames
\* The frame decoder of the design: a frame, or NeedMoreBytes when fewer
\* bytes are present than the header declares, or MalformedFrame when the
\* octet after the payload is not the frame end.
NeedMoreBytes == [kind |-> "NeedMoreBytes"]
MalformedFrame == [kind |-> "MalformedFrame"]
Frame(frame_type, channel, payload) ==
    [kind |-> "Frame", type |-> frame_type, channel |-> channel, payload |-> payload]

UnpackH(b, i) == b[i] * 256 + b[i + 1]

\* A declared length of 2^24 or more exceeds any buffer held here.
decode(b) ==
    IF Len(b) < 7 \/ b[4] # 0 THEN NeedMoreBytes
    ELSE LET length == b[5] * 65536 + b[6] * 256 + b[7]
         IN  IF Len(b) < 7 + length + 1 THEN NeedMoreBytes
             ELSE IF b[7 + length + 1] # FrameEnd THEN MalformedFrame
             ELSE Frame(b[1], UnpackH(b, 2), SubSeq(b, 8, 7 + length))

\* Bytes of the first frame of b, when decode(b) is a frame or malformed.
FrameSize(b) == 8 + b[5] * 65536 + b[6] * 256 + b[7]

\* ------------------------------------------------------------------ state
VARIABLES
    pc,        \* the statement the script is at
    USER, PASS, VHOST, QUEUE,   \* the module-level settings
    sent,      \* the arguments of the sendall calls so far, in order
    reads,     \* the values returned by the recv calls so far, in order
    printed,   \* what print has written: <<>> or <<resp>>
    closed,    \* s.close() has run
    wire,      \* bytes the broker has written that have not arrived yet
    inbuf,     \* bytes that have arrived and no recv has returned yet
    srvSeen,   \* how many of the client's writes the broker has answered
    srvMode,   \* the broker: "none" before the connection, "serving", "silent"
               \* after a refusal (it answers nothing more), "closed"
    splits,    \* how many times the transport has split the broker's bytes
    rst,       \* the socket has been reset by the broker's host
    codec      \* the frame codec exercised alone: input, bytes, decoded result

vars == <<pc, USER, PASS, VHOST, QUEUE, sent, reads, printed, closed,
          wire, inbuf, srvSeen, srvMode, splits, rst, codec>>

config == <<USER, PASS, VHOST, QUEUE, codec>>
client == <<pc, sent, reads, printed, closed>>
broker == <<wire, inbuf, srvSeen, srvMode, splits, rst>>

\* What the broker expects as the k-th write of the client, and answers with;
\* to queue.declare, the configured queue with 42 messages and 1 consumer.
Expected(k) ==
    CASE k = 1 -> ConnectionStart
      [] k = 2 -> ConnectionTune
      [] k = 3 -> ConnectionOpenOk
      [] k = 4 -> ChannelOpenOk
      [] OTHER -> QueueDeclareOk(encode(QUEUE), 42, 1)

\* What a broker that refuses the k-th write answers with.
Refusal(k) ==
    CASE k = 1 -> ProtocolHeader
      [] k = 2 -> ConnectionClose(403, 10, 11)
      [] k = 3 -> ConnectionClose(403, 10, 40)
      [] k = 4 -> ConnectionClose(504, 20, 10)
      [] OTHER -> ChannelClose(404, 50, 10)

Replies(k) == {Expected(k), Refusal(k), Corrupt(Expected(k))}

\* The codec variable when only the script runs.
NoCodec == [stage |-> "none"]

Init ==
    /\ pc = "connect"
    /\ USER \in Users /\ PASS \in Passwords /\ VHOST \in Vhosts /\ QUEUE \in Queues
    /\ sent = <<>> /\ reads = <<>> /\ printed = <<>> /\ closed = FALSE
    /\ wire = <<>> /\ inbuf = <<>> /\ srvSeen = 0 /\ srvMode = "none" /\ splits = 0
    /\ rst = FALSE
    /\ codec = NoCodec

\* sock.sendall(data), then go to `next`.  On a reset socket it raises.
SendAll(data, next) ==
    IF rst
    THEN /\ pc' = "error"
         /\ UNCHANGED sent
    ELSE /\ sent' = Append(sent, data)
         /\ pc' = next

\* s.recv(4096), then go to `next`.  It blocks until bytes have arrived or
\* the broker's close has; it returns at most RecvSize bytes, and the empty
\* string at end of stream.  On a reset socket it raises.
Recv(next) ==
    \/ /\ rst
       /\ pc' = "error"
       /\ UNCHANGED <<reads, inbuf>>
    \/ /\ ~rst
       /\ inbuf # <<>>
       /\ reads' = Append(reads, Take(inbuf, RecvSize))
       /\ inbuf' = Drop(inbuf, RecvSize)
       /\ pc' = next
    \/ /\ ~rst
       /\ inbuf = <<>> /\ wire = <<>> /\ srvMode = "closed"
       /\ reads' = Append(reads, <<>>)
       /\ inbuf' = inbuf
       /\ pc' = next

\* Line 17: socket.create_connection succeeds.
Connect ==
    /\ pc = "connect"
    /\ pc' = "send_header"
    /\ srvMode' = "serving"
    /\ UNCHANGED <<config, sent, reads, printed, closed, wire, inbuf, srvSeen, splits, rst>>

\* Line 17: socket.create_connection raises.
ConnectFail ==
    /\ pc = "connect"
    /\ pc' = "error"
    /\ UNCHANGED <<config, sent, reads, printed, closed, broker>>

\* Line 20.
SendHeader ==
    /\ pc = "send_header"
    /\ SendAll(ProtocolHeader, "recv_start")
    /\ UNCHANGED <<config, reads, printed, closed, broker>>

\* Line 23.
RecvStart ==
    /\ pc = "recv_start"
    /\ Recv("send_start_ok")
    /\ UNCHANGED <<config, sent, printed, closed, wire, srvSeen, srvMode, splits, rst>>

\* Lines 26-36.
SendStartOk ==
    /\ pc = "send_start_ok"
    /\ IF CanPackI(Len(SaslResponse(USER, PASS)))
       THEN SendAll(send_frame(1, 0, StartOkMethod(USER, PASS)), "recv_tune")
       ELSE pc' = "error" /\ UNCHANGED sent
    /\ UNCHANGED <<config, reads, printed, closed, broker>>

\* The recv of step 4 followed by connection.start-ok once more when it
\* returned end of stream.
RecvTune_resend ==
    /\ pc = "recv_tune"
    /\ Recv(IF inbuf = <<>> THEN "send_start_ok" ELSE "send_open")
    /\ UNCHANGED <<config, sent, printed, closed, wire, srvSeen, srvMode, splits, rst>>

\* Line 39.
RecvTune ==
    /\ pc = "recv_tune"
    /\ Recv("send_open")
    /\ UNCHANGED <<config, sent, printed, closed, wire, srvSeen, srvMode, splits, rst>>

\* Lines 42-44.
SendOpen ==
    /\ pc = "send_open"
    /\ IF CanPackB(Len(encode(VHOST)))
       THEN SendAll(send_frame(1, 0, OpenMethod(VHOST)), "recv_open_ok")
       ELSE pc' = "error" /\ UNCHANGED sent
    /\ UNCHANGED <<config, reads, printed, closed, broker>>

\* Line 45.
RecvOpenOk ==
    /\ pc = "recv_open_ok"
    /\ Recv("send_channel_open")
    /\ UNCHANGED <<config, sent, printed, closed, wire, srvSeen, srvMode, splits, rst>>

\* Step 6 skipped, and the rest of the handshake with it, when the recv
\* before it returned end of stream.
SendChannelOpen_stop_on_eof ==
    /\ pc = "send_channel_open"
    /\ IF reads[Len(reads)] = <<>>
       THEN pc' = "close" /\ UNCHANGED sent
       ELSE SendAll(send_frame(1, 1, ChannelOpenMethod), "recv_channel_open_ok")
    /\ UNCHANGED <<config, reads, printed, closed, broker>>

\* Line 48.
SendChannelOpen ==
    /\ pc = "send_channel_open"
    /\ SendAll(send_frame(1, 1, ChannelOpenMethod), "recv_channel_open_ok")
    /\ UNCHANGED <<config, reads, printed, closed, broker>>

\* Line 49.
RecvChannelOpenOk ==
    /\ pc = "recv_channel_open_ok"
    /\ Recv("send_queue_declare")
    /\ UNCHANGED <<config, sent, printed, closed, wire, srvSeen, srvMode, splits, rst>>

\* queue.declare written on channel 2.
SendQueueDeclare_channel_2 ==
    /\ pc = "send_queue_declare"
    /\ IF CanPackB(Len(encode(QUEUE)))
       THEN SendAll(send_frame(1, 2, QueueDeclareMethod(QUEUE)), "recv_resp")
       ELSE pc' = "error" /\ UNCHANGED sent
    /\ UNCHANGED <<config, reads, printed, closed, broker>>

\* Lines 52-59.
SendQueueDeclare ==
    /\ pc = "send_queue_declare"
    /\ IF CanPackB(Len(encode(QUEUE)))
       THEN SendAll(send_frame(1, 1, QueueDeclareMethod(QUEUE)), "recv_resp")
       ELSE pc' = "error" /\ UNCHANGED sent
    /\ UNCHANGED <<config, reads, printed, closed, broker>>

\* Line 61.
RecvResp ==
    /\ pc = "recv_resp"
    /\ Recv("print")
    /\ UNCHANGED <<config, sent, printed, closed, wire, srvSeen, srvMode, splits, rst>>

\* print of the first value recv returned instead of the last.
PrintResp_first_read ==
    /\ pc = "print"
    /\ printed' = <<reads[1]>>
    /\ pc' = "close"
    /\ UNCHANGED <<config, sent, reads, closed, broker>>

\* Line 62.
PrintResp ==
    /\ pc = "print"
    /\ printed' = <<reads[Len(reads)]>>
    /\ pc' = "close"
    /\ UNCHANGED <<config, sent, reads, closed, broker>>

\* Line 64.
Close ==
    /\ pc = "close"
    /\ closed' = TRUE
    /\ pc' = "done"
    /\ UNCHANGED <<config, sent, reads, printed, broker>>

\* The broker answers the next write of the client it has not answered:
\* with the method the handshake expects, with a refusal, or with a frame
\* whose last octet is wrong.  After either of the last two it is silent.
ServerReply ==
    /\ srvMode = "serving"
    /\ srvSeen < Len(sent)
    /\ \E r \in Replies(srvSeen + 1) :
          /\ wire' = wire \o r
          /\ srvMode' = IF r = Expected(srvSeen + 1) THEN "serving" ELSE "silent"
    /\ srvSeen' = srvSeen + 1
    /\ UNCHANGED <<config, client, inbuf, splits, rst>>

\* The transport delivers all that the broker has written.
Deliver ==
    /\ wire # <<>>
    /\ inbuf' = inbuf \o wire
    /\ wire' = <<>>
    /\ UNCHANGED <<config, client, srvSeen, srvMode, splits, rst>>

\* The transport delivers a first segment of SplitAt bytes only.
DeliverPart ==
    /\ Len(wire) > SplitAt
    /\ splits < MaxSplits
    /\ inbuf' = inbuf \o Take(wire, SplitAt)
    /\ wire' = Drop(wire, SplitAt)
    /\ splits' = splits + 1
    /\ UNCHANGED <<config, client, srvSeen, srvMode, rst>>

\* The broker closes its end: on reading the next write of the client,
\* instead of answering it, or after a refusal.
ServerClose ==
    /\ \/ srvMode = "serving" /\ srvSeen < Len(sent) /\ srvSeen' = srvSeen + 1
       \/ srvMode = "silent" /\ srvSeen' = srvSeen
    /\ srvMode' = "closed"
    /\ UNCHANGED <<config, client, wire, inbuf, splits, rst>>

\* A write of the client reaches the broker's host after the broker closed:
\* the host answers with a reset.
Reset ==
    /\ srvMode = "closed" /\ ~rst
    /\ srvSeen < Len(sent)
    /\ rst' = TRUE
    /\ UNCHANGED <<config, client, wire, inbuf, srvSeen, srvMode, splits>>

Next ==
    \/ Connect \/ ConnectFail
    \/ SendHeader \/ RecvStart
    \/ SendStartOk \/ RecvTune
    \/ SendOpen \/ RecvOpenOk
    \/ SendChannelOpen \/ RecvChannelOpenOk
    \/ SendQueueDeclare \/ RecvResp
    \/ PrintResp \/ Close
    \/ ServerReply \/ Deliver \/ DeliverPart \/ ServerClose \/ Reset

Spec == Init /\ [][Next]_vars

\* ------------------------------------------------- the frame codec alone
FrameTypes == {1, 2, 3, 8}
Channels == {0, 1, 256, 65535}
PayloadBytes == {0, 206, 255}

CodecInit ==
    /\ \E t \in FrameTypes, c \in Channels, p \in SeqsUpTo(PayloadBytes, MaxPayload) :
          codec = [stage |-> "input", type |-> t, channel |-> c, payload |-> p]
    /\ pc = "codec"
    /\ USER = <<>> /\ PASS = <<>> /\ VHOST = <<>> /\ QUEUE = <<>>
    /\ sent = <<>> /\ reads = <<>> /\ printed = <<>> /\ closed = FALSE
    /\ wire = <<>> /\ inbuf = <<>> /\ srvSeen = 0 /\ srvMode = "none" /\ splits = 0
    /\ rst = FALSE

\* The bytes send_frame writes for the input.
CodecEncode ==
    /\ codec.stage = "input"
    /\ codec' = [stage |-> "encoded", type |-> codec.type, channel |-> codec.channel,
                 payload |-> codec.payload,
                 bytes |-> send_frame(codec.type, codec.channel, codec.payload)]
    /\ UNCHANGED <<USER, PASS, VHOST, QUEUE, client, broker>>

\* The decoder applied to those bytes.
CodecDecode ==
    /\ codec.stage = "encoded"
    /\ codec' = [stage |-> "decoded", type |-> codec.type, channel |-> codec.channel,
                 payload |-> codec.payload, bytes |-> codec.bytes,
                 result |-> decode(codec.bytes)]
    /\ UNCHANGED <<USER, PASS, VHOST, QUEUE, client, broker>>

CodecNext == CodecEncode \/ CodecDecode

CodecSpec == CodecInit /\ [][CodecNext]_vars

\* ------------------------------------------------------------ properties
\* All bytes the recv calls have returned, in order.
RECURSIVE Flatten(_)
Flatten(ss) == IF ss = <<>> THEN <<>> ELSE Head(ss) \o Flatten(Tail(ss))

received == Flatten(reads)

\* The received stream cut into frames: the complete frames at its front,
\* and how it ends: "clean", "partial" (a frame has begun and not ended) or
\* "malformed" (a frame whose last octet is not the frame end).
RECURSIVE Stream(_)
Stream(b) ==
    IF b = <<>> THEN [frames |-> <<>>, end |-> "clean"]
    ELSE LET d == decode(b)
         IN  IF d = NeedMoreBytes THEN [frames |-> <<>>, end |-> "partial"]
             ELSE IF d = MalformedFrame THEN [frames |-> <<>>, end |-> "malformed"]
             ELSE LET rest == Stream(Drop(b, FrameSize(b)))
                  IN  [frames |-> <<d>> \o rest.frames, end |-> rest.end]

\* Class and method of a method frame's payload.
MethodOf(payload) ==
    IF Len(payload) >= 4 THEN <<UnpackH(payload, 1), UnpackH(payload, 3)>> ELSE <<0, 0>>

\* A complete frame carrying the method has been received.
Received(class_id, method_id) ==
    \E i \in DOMAIN Stream(received).frames :
        MethodOf(Stream(received).frames[i].payload) = <<class_id, method_id>>

\* Class and method of the i-th write of the client; <<0, 0>> for the header.
SentMethod(i) ==
    IF sent[i] = ProtocolHeader \/ Len(sent[i]) < 11 THEN <<0, 0>>
    ELSE <<UnpackH(sent[i], 8), UnpackH(sent[i], 10)>>

RecvPcs == {"recv_start", "recv_tune", "recv_open_ok", "recv_channel_open_ok", "recv_resp"}

\* C1: no pipelining.  While the broker answers every write with the frame
\* the handshake expects, the client has written at most one frame more than
\* it has received complete frames, however the transport segments them.
C1_NoPipelining ==
    srvMode = "serving" => Len(sent) <= Len(Stream(received).frames) + 1

\* Bytes that cannot be the beginning of a connection.start method frame, and
\* are not a frame with a wrong last octet either.
NotStart(b) ==
    /\ b # <<>>
    /\ decode(b) # MalformedFrame
    /\ \/ b[1] # 1
       \/ Len(b) >= 11 /\ MethodOf(SubSeq(b, 8, 11)) # <<10, 10>>

\* C2: validation of the first answer.  When what the first recv returned is
\* not a connection.start method frame, connection.start-ok is never written.
C2_StartValidated ==
    (Len(reads) >= 1 /\ NotStart(reads[1]))
    => \A i \in DOMAIN sent : SentMethod(i) # <<10, 11>>

\* C3: AuthFailed.  When the broker closes right after connection.start-ok
\* (the recv that follows it returns end of stream), no connection.open,
\* channel.open or queue.declare is written.
C3_AuthFailedStops ==
    (Len(reads) >= 2 /\ Received(10, 10) /\ reads[2] = <<>>)
    => \A i \in DOMAIN sent : SentMethod(i) \notin {<<10, 40>>, <<20, 10>>, <<50, 10>>}

\* C4: a channel only on an open connection.  channel.open and queue.declare
\* are written only after a complete connection.open-ok has been received.
C4_ChannelAfterOpenOk ==
    (\E i \in DOMAIN sent : SentMethod(i) \in {<<20, 10>>, <<50, 10>>}) => Received(10, 41)

\* C5: negotiation order.  connection.open is written only after
\* connection.tune has been received and connection.tune-ok has been written.
C5_OpenAfterTuneOk ==
    \A i \in DOMAIN sent :
        SentMethod(i) = <<10, 40>>
        => /\ Received(10, 30)
           /\ \E j \in 1..(i - 1) : SentMethod(j) = <<10, 31>>

\* C8: NeedMoreBytes.  When the received stream ends inside a frame the
\* broker is still sending, the client is reading more; it has not moved on.
C8_PartialReadRetries ==
    (srvMode = "serving" /\ Stream(received).end = "partial") => pc \in RecvPcs

\* C9: MalformedFrame is fatal.  When the answer to the k-th write ends with
\* an octet other than 0xCE, the client writes nothing after the k-th write.
C9_MalformedStops ==
    Stream(received).end = "malformed" => Len(sent) <= Len(Stream(received).frames) + 1

\* The method payload and the channel of the i-th write, i in 2..5.
SentPayload(i) ==
    CASE i = 2 -> StartOkMethod(USER, PASS)
      [] i = 3 -> OpenMethod(VHOST)
      [] i = 4 -> ChannelOpenMethod
      [] OTHER -> QueueDeclareMethod(QUEUE)

SentChannel(i) == IF i <= 3 THEN 0 ELSE 1

\* A 4-byte big-endian number below 2^31 at b[i..i+3].
UnpackI(b, i) == b[i] * 16777216 + b[i + 1] * 65536 + b[i + 2] * 256 + b[i + 3]

\* C6: the frame envelope.  Every method frame written is one type octet,
\* two channel octets, four length octets holding the exact payload length,
\* the payload, and 0xCE as its last octet, big-endian throughout.
C6_Envelope ==
    \A i \in 2..Len(sent) :
        LET b == sent[i]
            p == SentPayload(i)
        IN  /\ Len(b) = 7 + Len(p) + 1
            /\ b[1] = 1
            /\ UnpackH(b, 2) = SentChannel(i)
            /\ b[4] < 128 /\ UnpackI(b, 4) = Len(p)
            /\ SubSeq(b, 8, 7 + Len(p)) = p
            /\ b[Len(b)] = 206

\* All four method frames are written, for a user name with a two-byte
\* character.
C6_Witness ==
    /\ Len(sent) = 5
    /\ USER = <<233>>
    /\ sent[5][Len(sent[5])] = 206
    /\ sent[2][7] = Len(StartOkMethod(USER, PASS))

\* C7: frame round trip.  Decoding the bytes send_frame writes for a type,
\* a channel and a payload gives a frame with that type, channel and payload.
C7_RoundTrip ==
    codec.stage = "decoded" => codec.result = Frame(codec.type, codec.channel, codec.payload)

\* A payload that holds the frame-end octet, on the highest channel, decoded.
C7_Witness ==
    /\ codec.stage = "decoded"
    /\ codec.payload = <<206, 0>>
    /\ codec.channel = 65535
    /\ codec.result.kind = "Frame"

\* C10: SASL PLAIN.  The long string in connection.start-ok is the user
\* name, a NUL, the user name, a NUL and the password, and nothing else;
\* for user "u" and password "p" it is u 00 u 00 p.
C10_SaslPlain ==
    Len(sent) >= 2 =>
        LET b == sent[2]
            n == UnpackI(b, 19)
            resp == SubSeq(b, 23, 22 + n)
        IN  /\ Len(b) = 22 + n + 2
            /\ resp = encode(USER) \o <<0>> \o encode(USER) \o <<0>> \o encode(PASS)
            /\ (USER = <<117>> /\ PASS = <<112>>) => resp = <<117, 0, 117, 0, 112>>

\* connection.start-ok written for user "u" and password "p".
C10_Witness ==
    /\ Len(sent) >= 2
    /\ USER = <<117>> /\ PASS = <<112>>
    /\ SentMethod(2) = <<10, 11>>

\* Every recv returned exactly one whole frame, the one the handshake
\* expects at that step.
AllExpectedReads == reads = <<Expected(1), Expected(2), Expected(3), Expected(4), Expected(5)>>

\* The fields of a queue.declare-ok method frame: name, message count,
\* consumer count.
DeclareOkFields(b) ==
    LET n == b[12]
    IN  <<SubSeq(b, 13, 12 + n), UnpackI(b, 13 + n), UnpackI(b, 17 + n)>>

ShortStrAt(b, i, content) ==
    /\ b[i] = Len(content)
    /\ SubSeq(b, i + 1, i + Len(content)) = content

Plain == <<80, 76, 65, 73, 78>>

\* C12: short strings.  The mechanism name in connection.start-ok, the
\* virtual host in connection.open and the queue name in queue.declare are
\* each written as one octet holding the content length, directly followed
\* by the content.
C12_ShortStrings ==
    /\ Len(sent) >= 2 => ShortStrAt(sent[2], 13, Plain)
    /\ Len(sent) >= 3 => ShortStrAt(sent[3], 12, encode(VHOST))
    /\ Len(sent) >= 5 => ShortStrAt(sent[5], 15, encode(QUEUE))

\* C13: layout of connection.start-ok.  After the class and method come the
\* mechanism name "PLAIN", the response as a long string with its length in
\* four octets, and a locale string that is not empty, which ends the
\* payload.
C13_StartOkLayout ==
    Len(sent) >= 2 =>
        LET b == sent[2]
            n == UnpackI(b, 19)
            locale_len == b[23 + n]
        IN  /\ SentMethod(2) = <<10, 11>>
            /\ SubSeq(b, 14, 18) = Plain
            /\ n = Len(SaslResponse(USER, PASS))
            /\ SubSeq(b, 23, 22 + n) = SaslResponse(USER, PASS)
            /\ locale_len >= 1
            /\ Len(b) = 23 + n + locale_len + 1

\* C14: passive declare.  In the flags octet of queue.declare, with passive,
\* durable, exclusive, auto-delete and no-wait at bits 0 to 4, the passive
\* bit is set and no other bit is.
C14_PassiveOnly ==
    Len(sent) >= 5 =>
        LET flags == sent[5][Len(sent[5]) - 1]
        IN  flags % 2 = 1 /\ flags \div 2 = 0

\* Channel of the i-th write, a frame.
ChannelOf(i) == UnpackH(sent[i], 2)

\* C15: channel numbers.  Every frame of class 10 is written on channel 0;
\* channel.open is written on a positive channel, and queue.declare on the
\* channel that channel.open was written on.
C15_Channels ==
    \A i \in 2..Len(sent) :
        LET class_id == UnpackH(sent[i], 8)
        IN  CASE class_id = 10 -> ChannelOf(i) = 0
              [] class_id = 20 -> ChannelOf(i) > 0
              [] class_id = 50 ->
                    \E j \in 2..(i - 1) :
                        SentMethod(j) = <<20, 10>> /\ ChannelOf(j) = ChannelOf(i)
              [] OTHER -> FALSE

\* All four method frames are written.
C15_Witness ==
    /\ Len(sent) = 5
    /\ SentMethod(2) = <<10, 11>> /\ SentMethod(3) = <<10, 40>>
    /\ SentMethod(4) = <<20, 10>> /\ SentMethod(5) = <<50, 10>>
    /\ ChannelOf(5) = 1

\* C16: no retry.  The header and each method frame are written at most
\* once, five writes at most, and the connection is made before anything is
\* written or read, never again.
C16_NoRetry ==
    /\ Len(sent) <= 5
    /\ Cardinality({SentMethod(i) : i \in DOMAIN sent}) = Len(sent)
    /\ \A i \in 2..Len(sent) : sent[i] # ProtocolHeader
    /\ pc = "connect" => sent = <<>> /\ reads = <<>>

\* A run that failed on a reset socket after three writes.
C16_Witness ==
    /\ pc = "error"
    /\ rst
    /\ Len(sent) = 3

\* C17: Closed is terminal.  Once a recv has returned end of stream (the
\* broker closed) nothing more is written, and once s.close() has run the
\* script has ended.
C17_ClosedIsTerminal ==
    /\ \A k \in DOMAIN reads : reads[k] = <<>> => Len(sent) <= k
    /\ closed => pc = "done"

\* C18: every run that stops after the connection was made has closed its
\* socket.
C18_StopsClosed ==
    (pc \in {"done", "error"} /\ srvMode # "none") => closed

\* What the script writes, from the settings alone.
AllWrites ==
    << ProtocolHeader,
       send_frame(1, 0, StartOkMethod(USER, PASS)),
       send_frame(1, 0, OpenMethod(VHOST)),
       send_frame(1, 1, ChannelOpenMethod),
       send_frame(1, 1, QueueDeclareMethod(QUEUE)) >>

\* C19: the bytes written do not depend on the bytes read.  At every point
\* the writes so far are the first writes of the one sequence the settings
\* fix, and a run in which every recv returned and every send succeeded has
\* written all of it.
C19_SentIndependent ==
    /\ Len(sent) <= 5
    /\ sent = SubSeq(AllWrites, 1, Len(sent))
    /\ pc \in {"print", "close", "done"} => sent = AllWrites

\* A complete run in which the broker refused connection.open with
\* connection.close and then closed: the later reads are empty.
C19_Witness ==
    /\ pc = "done"
    /\ Len(reads) = 5
    /\ reads[3] = ConnectionClose(403, 10, 40)
    /\ reads[5] = <<>>
    /\ sent = AllWrites

====
